---- MODULE Spec2Model ----
(***************************************************************************)
(* EduMate AI backend (src/backend/main.py): the POST /api/generate        *)
(* handler, the response cleaner clean_json_response and the sanitizer     *)
(* validate_study_data.                                                    *)
(*                                                                         *)
(* Text is a sequence of one-character strings, so that strip(), lower(),  *)
(* upper(), len(), slicing and the regular expressions act on characters.  *)
(* The backtick, which a TLA+ string cannot hold, is the character "BT".   *)
(* A decoded JSON value is a tagged record (see JNull .. JMap).            *)
(*                                                                         *)
(* Lines 206-223 of main.py are dedented in the repository; the handler is *)
(* modelled with them inside the try block opened at line 193 and closed   *)
(* by the except clause at line 241, which is the only reading under which *)
(* the function has a body.                                                *)
(***************************************************************************)
EXTENDS Integers, Sequences, FiniteSets, TLC

VARIABLES pc, request, topic, prompt, calls, response_text, cleaned_response,
          parsed_data, response, raised, log, slice_hashable

vars == <<pc, request, topic, prompt, calls, response_text, cleaned_response,
          parsed_data, response, raised, log, slice_hashable>>

(***************************************************************************)
(* Bounds of the model.                                                    *)
(***************************************************************************)
\* Whitespace characters put on each side of a request topic: 0..MaxPad.
MaxPad == 2
\* Segments concatenated into a raw upstream text given to the cleaner.
MaxSegs == 4
\* Elements in the "mcqs" / "flashcards" arrays of the counting inputs.
MaxItems == 6
\* Items in an "options" array.
MaxOpts == 5
\* Cap on the counter of upstream calls of one request.
MaxCalls == 3

(***************************************************************************)
(* Python values: None / Optional, text.                                   *)
(***************************************************************************)
None == [none |-> TRUE]

Some(x) == [some |-> x]

\* str.isspace() characters that occur in the model's texts.
WS == {" ", "\n", "\t"}

LowerLetters == <<"a","b","c","d","e","f","g","h","i","j","k","l","m","n","o","p","q","r","s","t","u","v","w","x","y","z">>

UpperLetters == <<"A","B","C","D","E","F","G","H","I","J","K","L","M","N","O","P","Q","R","S","T","U","V","W","X","Y","Z">>

Digits == <<"0","1","2","3","4","5","6","7","8","9">>

IndexIn(c, s) == CHOOSE i \in 1..Len(s) : s[i] = c

\* str.lower(), one character.
LowerChar(c) ==
    IF \E i \in 1..26 : UpperLetters[i] = c THEN LowerLetters[IndexIn(c, UpperLetters)] ELSE c

\* str.upper(), one character.
UpperChar(c) ==
    IF \E i \in 1..26 : LowerLetters[i] = c THEN UpperLetters[IndexIn(c, LowerLetters)] ELSE c

lower(s) == [i \in 1..Len(s) |-> LowerChar(s[i])]

upper(s) == [i \in 1..Len(s) |-> UpperChar(s[i])]

\* str.strip(): the text between its first and its last non-whitespace character.
strip(s) ==
    LET keep == {i \in 1..Len(s) : s[i] \notin WS}
    IN  IF keep = {} THEN << >>
        ELSE LET lo == CHOOSE i \in keep : \A j \in keep : i <= j
                 hi == CHOOSE i \in keep : \A j \in keep : j <= i
             IN  SubSeq(s, lo, hi)

\* Whether pat occurs in s at index i.
MatchAt(pat, s, i) ==
    /\ i >= 1
    /\ i + Len(pat) - 1 <= Len(s)
    /\ \A k \in 1..Len(pat) : s[i + k - 1] = pat[k]

\* Python's substring test, pat in s.
Contains(s, pat) == \E i \in 1..(Len(s) + 1) : MatchAt(pat, s, i)

\* The index after the run of whitespace that starts at j (a greedy whitespace run).
SkipWs(s, j) ==
    CHOOSE k \in j..(Len(s) + 1) :
        /\ \A m \in j..(k - 1) : s[m] \in WS
        /\ (k <= Len(s) => s[k] \notin WS)

\* re.sub of pat followed by any whitespace, by '': the leftmost non-overlapping matches, left to
\* right, each the literal pat and the whitespace after it, removed.
RECURSIVE ReSubFrom(_, _, _)
ReSubFrom(pat, s, i) ==
    IF i > Len(s) THEN << >>
    ELSE IF MatchAt(pat, s, i) THEN ReSubFrom(pat, s, SkipWs(s, i + Len(pat)))
    ELSE <<s[i]>> \o ReSubFrom(pat, s, i + 1)

re_sub_ws(pat, s) == ReSubFrom(pat, s, 1)

Fence == <<"BT","BT","BT">>

FenceJson == <<"BT","BT","BT","j","s","o","n">>

clean_json_response(text) ==
    strip(re_sub_ws(Fence, re_sub_ws(FenceJson, text)))

(***************************************************************************)
(* What json.loads returns: None, bool, int, str, list, dict.  A dict is   *)
(* the sequence of its <<key, value>> pairs in insertion order, with       *)
(* distinct keys.  Numbers are the non-negative integers.                  *)
(***************************************************************************)
JNull == [t |-> "null"]

JBool(b) == [t |-> "bool", b |-> b]

JNum(n) == [t |-> "num", n |-> n]

JStr(s) == [t |-> "str", s |-> s]

JList(xs) == [t |-> "list", xs |-> xs]

JMap(kv) == [t |-> "map", kv |-> kv]

\* type(v).__name__
TypeName(v) ==
    CASE v.t = "null" -> <<"N","o","n","e","T","y","p","e">>
      [] v.t = "bool" -> <<"b","o","o","l">>
      [] v.t = "num"  -> <<"i","n","t">>
      [] v.t = "str"  -> <<"s","t","r">>
      [] v.t = "list" -> <<"l","i","s","t">>
      [] v.t = "map"  -> <<"d","i","c","t">>

\* A call's outcome: a value, or a raised exception with its str().
Ok(v) == [ok |-> TRUE, v |-> v]

Raise(type, msg) == [ok |-> FALSE, exc |-> [type |-> type, msg |-> msg]]

\* str(n) of a non-negative int.
RECURSIVE DecStr(_)
DecStr(n) ==
    IF n < 10 THEN <<Digits[n + 1]>> ELSE DecStr(n \div 10) \o <<Digits[(n % 10) + 1]>>

\* ", ".join(parts)
RECURSIVE Join(_)
Join(parts) ==
    IF Len(parts) = 0 THEN << >>
    ELSE IF Len(parts) = 1 THEN parts[1]
    ELSE parts[1] \o <<","," ">> \o Join(Tail(parts))

\* str(v) and repr(v).  The strings nested in lists and dicts of the model
\* hold no quote, backslash or control character, so repr single-quotes them.
RECURSIVE py_repr(_)
py_repr(v) ==
    CASE v.t = "null" -> <<"N","o","n","e">>
      [] v.t = "bool" -> IF v.b THEN <<"T","r","u","e">> ELSE <<"F","a","l","s","e">>
      [] v.t = "num"  -> DecStr(v.n)
      [] v.t = "str"  -> <<"'">> \o v.s \o <<"'">>
      [] v.t = "list" -> <<"[">> \o Join([i \in 1..Len(v.xs) |-> py_repr(v.xs[i])]) \o <<"]">>
      [] v.t = "map"  ->
           <<"{">> \o Join([i \in 1..Len(v.kv) |->
                            <<"'">> \o v.kv[i][1] \o <<"'",":"," ">> \o py_repr(v.kv[i][2])]) \o <<"}">>

py_str(v) == IF v.t = "str" THEN v.s ELSE py_repr(v)

\* bool(v): the truth value `if note` tests.
truthy(v) ==
    CASE v.t = "null" -> FALSE
      [] v.t = "bool" -> v.b
      [] v.t = "num"  -> v.n # 0
      [] v.t = "str"  -> v.s # << >>
      [] v.t = "list" -> v.xs # << >>
      [] v.t = "map"  -> v.kv # << >>

\* dict.get(key, default)
dict_get(m, key, default) ==
    IF \E i \in 1..Len(m.kv) : m.kv[i][1] = key
    THEN m.kv[CHOOSE i \in 1..Len(m.kv) : m.kv[i][1] = key][2]
    ELSE default

\* len(v)
py_len(v) ==
    CASE v.t = "str"  -> Ok(Len(v.s))
      [] v.t = "list" -> Ok(Len(v.xs))
      [] v.t = "map"  -> Ok(Len(v.kv))
      [] OTHER -> Raise("TypeError", <<"o","b","j","e","c","t"," ","o","f"," ","t","y","p","e"," ","'">> \o TypeName(v) \o <<"'"," ","h","a","s"," ","n","o"," ","l","e","n","(",")">>)

\* What `for x in v` yields for a str, a list, a dict (its keys).
py_iter(v) ==
    CASE v.t = "str"  -> [i \in 1..Len(v.s) |-> JStr(<<v.s[i]>>)]
      [] v.t = "list" -> v.xs
      [] v.t = "map"  -> [i \in 1..Len(v.kv) |-> JStr(v.kv[i][1])]

Take(xs, n) == SubSeq(xs, 1, IF Len(xs) < n THEN Len(xs) ELSE n)

\* v[:n].  A dict takes the slice as a key: unhashable before Python 3.12
\* (TypeError), a missing key from 3.12 on (KeyError, whose str() is the repr
\* of the key).
py_slice(v, n) ==
    CASE v.t = "str"  -> Ok(JStr(Take(v.s, n)))
      [] v.t = "list" -> Ok(JList(Take(v.xs, n)))
      [] v.t = "map"  ->
           IF slice_hashable
           THEN Raise("KeyError", <<"s","l","i","c","e","(","N","o","n","e",","," ">> \o DecStr(n) \o <<","," ","N","o","n","e",")">>)
           ELSE Raise("TypeError", <<"u","n","h","a","s","h","a","b","l","e"," ","t","y","p","e",":"," ","'","s","l","i","c","e","'">>)

\* Variant of placeholder: the letter taken one position further, chr(66 + len).
placeholder_shifted(n) == <<UpperLetters[n + 2]>> \o <<")"," ","O","p","t","i","o","n"," ">> \o DecStr(n + 1)

\* line 137: f"{chr(65 + len(options))}) Option {len(options) + 1}"
placeholder(n) == <<UpperLetters[n + 1]>> \o <<")"," ","O","p","t","i","o","n"," ">> \o DecStr(n + 1)

\* lines 136-137: while len(options) < 4: options.append(...)
RECURSIVE pad_options(_)
pad_options(xs) ==
    IF Len(xs) < 4 THEN pad_options(Append(xs, JStr(placeholder(Len(xs))))) ELSE xs

\* line 138: options = options[:4]
options_head(options) == py_slice(options, 4)

\* lines 133-138: the options of one mcq mapping, or the exception raised.
fix_options(mcq) ==
    LET options == dict_get(mcq, <<"o","p","t","i","o","n","s">>, JList(<< >>))
        n == py_len(options)
    IN  IF ~n.ok THEN n
        ELSE IF n.v = 4 THEN Ok(options)
        ELSE IF n.v < 4 /\ options.t # "list"
             THEN Raise("AttributeError",
                        <<"'">> \o TypeName(options) \o <<"'"," ","o","b","j","e","c","t"," ","h","a","s"," ","n","o"," ","a","t","t","r","i","b","u","t","e"," ","'","a","p","p","e","n","d","'">>)
        ELSE options_head(IF n.v < 4 THEN JList(pad_options(options.xs)) ELSE options)

\* line 143
mcq_answer(mcq) == upper(py_str(dict_get(mcq, <<"a","n","s","w","e","r">>, JStr(<<"A">>))))

\* lines 140-144
validated_mcq(mcq, options) ==
    [question |-> py_str(dict_get(mcq, <<"q","u","e","s","t","i","o","n">>, JStr(<<"Q","u","e","s","t","i","o","n">>))),
     options  |-> [i \in 1..Len(py_iter(options)) |-> py_str(py_iter(options)[i])],
     answer   |-> mcq_answer(mcq)]

\* Variant of mcqs_head: the loop taken over all of mcqs.
mcqs_head_all(mcqs) == mcqs

\* line 131: mcqs[:5]
mcqs_head(mcqs) == Take(mcqs, 5)

\* line 152: flashcards[:3]
flashcards_head(flashcards) == Take(flashcards, 3)

\* lines 130-144: the loop over mcqs[:5], stopped by the first exception.
RECURSIVE validate_mcqs(_, _, _)
validate_mcqs(items, i, acc) ==
    IF i > Len(items) THEN Ok(acc)
    ELSE IF items[i].t # "map" THEN validate_mcqs(items, i + 1, acc)
    ELSE LET o == fix_options(items[i])
         IN  IF ~o.ok THEN o
             ELSE validate_mcqs(items, i + 1, Append(acc, validated_mcq(items[i], o.v)))

\* lines 151-157
RECURSIVE validate_flashcards(_, _, _)
validate_flashcards(items, i, acc) ==
    IF i > Len(items) THEN acc
    ELSE IF items[i].t # "map" THEN validate_flashcards(items, i + 1, acc)
    ELSE validate_flashcards(items, i + 1,
            Append(acc, [front |-> py_str(dict_get(items[i], <<"f","r","o","n","t">>, JStr(<<"Q","u","e","s","t","i","o","n">>))),
                         back  |-> py_str(dict_get(items[i], <<"b","a","c","k">>, JStr(<<"A","n","s","w","e","r">>)))]))

\* lines 120-123
validate_notes(data) ==
    LET got == dict_get(data, <<"n","o","t","e","s">>, JList(<< >>))
        notes == IF got.t # "list" THEN <<JStr(py_str(got))>> ELSE got.xs
    IN  SelectSeq([i \in 1..Len(notes) |-> IF truthy(notes[i]) THEN Some(py_str(notes[i])) ELSE None],
                  LAMBDA x : x # None)

\* lines 117-163: the StudyData returned, or the exception raised.
validate_study_data(data) ==
    IF data.t # "map"
    THEN Raise("AttributeError", <<"'">> \o TypeName(data) \o <<"'"," ","o","b","j","e","c","t"," ","h","a","s"," ","n","o"," ","a","t","t","r","i","b","u","t","e"," ","'","g","e","t","'">>)
    ELSE LET notes == validate_notes(data)
             got_mcqs == dict_get(data, <<"m","c","q","s">>, JList(<< >>))
             mcqs == IF got_mcqs.t # "list" THEN << >> ELSE got_mcqs.xs
             validated_mcqs == validate_mcqs(mcqs_head(mcqs), 1, << >>)
             got_cards == dict_get(data, <<"f","l","a","s","h","c","a","r","d","s">>, JList(<< >>))
             flashcards == IF got_cards.t # "list" THEN << >> ELSE got_cards.xs
         IN  IF ~validated_mcqs.ok THEN validated_mcqs
             ELSE Ok([notes      |-> [i \in 1..Len(notes) |-> notes[i].some],
                      mcqs       |-> validated_mcqs.v,
                      flashcards |-> validate_flashcards(flashcards_head(flashcards), 1, << >>)])

(***************************************************************************)
(* POST /api/generate                                                      *)
(***************************************************************************)
\* line 60: Field(..., min_length=2, max_length=200)
min_length == 2

max_length == 200

\* lines 62-65
GenerationResponse(success, data, error) ==
    [success |-> success, data |-> data, error |-> error]

\* lines 68-102: STUDY_GENERATION_PROMPT.format(topic=topic).  Of the fixed
\* template only the text on each side of the placeholder is kept.
PROMPT_HEAD == <<"T","O","P","I","C",":"," ">>

PROMPT_TAIL == <<"\n","\n","G","e","n","e","r","a","t","e"," ","s","t","u","d","y"," ","m","a","t","e","r","i","a","l","s">>

STUDY_GENERATION_PROMPT(t) == PROMPT_HEAD \o t \o PROMPT_TAIL

TOPIC_EMPTY == <<"T","o","p","i","c"," ","c","a","n","n","o","t"," ","b","e"," ","e","m","p","t","y">>

API_CONFIG_ERROR == <<"A","P","I"," ","c","o","n","f","i","g","u","r","a","t","i","o","n"," ","e","r","r","o","r","."," ","P","l","e","a","s","e"," ","c","o","n","t","a","c","t"," ","s","u","p","p","o","r","t",".">>

RATE_LIMIT_ERROR == <<"T","o","o"," ","m","a","n","y"," ","r","e","q","u","e","s","t","s","."," ","P","l","e","a","s","e"," ","t","r","y"," ","a","g","a","i","n"," ","i","n"," ","a"," ","m","o","m","e","n","t",".">>

PARSE_PREFIX == <<"F","a","i","l","e","d"," ","t","o"," ","p","a","r","s","e"," ","A","I"," ","r","e","s","p","o","n","s","e",":"," ">>

\* Variant of classify: the patterns matched without lower().
classify_first_only(error_message) ==
    IF Contains(error_message, <<"a","p","i","_","k","e","y">>) THEN API_CONFIG_ERROR
    ELSE IF Contains(error_message, <<"r","a","t","e"," ","l","i","m","i","t">>) THEN RATE_LIMIT_ERROR
    ELSE error_message

\* lines 242-246
classify(error_message) ==
    IF Contains(lower(error_message), <<"a","p","i","_","k","e","y">>) THEN API_CONFIG_ERROR
    ELSE IF Contains(lower(error_message), <<"r","a","t","e"," ","l","i","m","i","t">>) THEN RATE_LIMIT_ERROR
    ELSE error_message

\* Variant of on_exception: the message not passed to the response.
on_exception_no_error(exc) == GenerationResponse(FALSE, None, None)

\* lines 241-251: the except clause.
on_exception(exc) == GenerationResponse(FALSE, None, Some(classify(exc.msg)))

\* What the upstream completion call can do: raise an error with one of these
\* texts, or return a message whose content is None or one of these texts.
UpstreamErrors ==
    { <<"E","r","r","o","r"," ","c","o","d","e",":"," ","4","0","1"," ","-"," ","i","n","v","a","l","i","d","_","a","p","i","_","k","e","y">>,
      <<"M","i","s","s","i","n","g"," ","A","P","I","_","K","E","Y">>,
      <<"R","a","t","e"," ","l","i","m","i","t"," ","r","e","a","c","h","e","d">>,
      <<"R","A","T","E"," ","L","I","M","I","T">>,
      <<"r","a","t","e"," ","l","i","m","i","t"," ","h","i","t"," ","f","o","r"," ","a","p","i","_","k","e","y">>,
      <<"r","a","t","e","_","l","i","m","i","t","_","e","x","c","e","e","d","e","d">>,
      <<"C","o","n","n","e","c","t","i","o","n"," ","e","r","r","o","r",".">>,
      << >> }

UpstreamTexts ==
    { <<"{","}">>,
      <<"BT","BT","BT","j","s","o","n","\n","{","}","\n","BT","BT","BT">>,
      <<"BT","BT","BT","\n","{","}","\n","BT","BT","BT">>,
      <<"BT","BT","BT","p","y","t","h","o","n","\n","{","}","\n","BT","BT","BT">>,
      <<"n","o","t"," ","j","s","o","n">>,
      << >>,
      <<"[","]">>,
      <<"n","u","l","l">>,
      <<"{","\"","m","c","q","s","\"",":"," ","[","{","\"","o","p","t","i","o","n","s","\"",":"," ","n","u","l","l","}","]","}">>,
      <<"{","\"","m","c","q","s","\"",":"," ","[","{","\"","a","n","s","w","e","r","\"",":"," ","\"","b","\"","}","]","}">>,
      <<"{","\"","n","o","t","e","s","\"",":"," ","[","\"","u","s","e"," ","BT","BT","BT"," ","h","e","r","e","\"","]","}">> }

JSON_EXPECTING_VALUE == <<"E","x","p","e","c","t","i","n","g"," ","v","a","l","u","e",":"," ","l","i","n","e"," ","1"," ","c","o","l","u","m","n"," ","1"," ","(","c","h","a","r"," ","0",")">>

\* line 226: json.loads on the cleaned texts of the model.
json_loads(text) ==
    CASE text = <<"{","}">> -> Ok(JMap(<< >>))
      [] text = <<"[","]">> -> Ok(JList(<< >>))
      [] text = <<"n","u","l","l">> -> Ok(JNull)
      [] text = <<"{","\"","m","c","q","s","\"",":"," ","[","{","\"","o","p","t","i","o","n","s","\"",":"," ","n","u","l","l","}","]","}">> ->
           Ok(JMap(<< <<<<"m","c","q","s">>, JList(<<JMap(<< <<<<"o","p","t","i","o","n","s">>, JNull>> >>)>>)>> >>))
      [] text = <<"{","\"","m","c","q","s","\"",":"," ","[","{","\"","a","n","s","w","e","r","\"",":"," ","\"","b","\"","}","]","}">> ->
           Ok(JMap(<< <<<<"m","c","q","s">>, JList(<<JMap(<< <<<<"a","n","s","w","e","r">>, JStr(<<"b">>)>> >>)>>)>> >>))
      [] text = <<"{","\"","n","o","t","e","s","\"",":"," ","[","\"","u","s","e"," ","h","e","r","e","\"","]","}">> ->
           Ok(JMap(<< <<<<"n","o","t","e","s">>, JList(<<JStr(<<"u","s","e"," ","h","e","r","e">>)>>)>> >>))
      [] text \in {<<"n","o","t"," ","j","s","o","n">>, << >>, <<"p","y","t","h","o","n","\n","{","}">>} ->
           Raise("JSONDecodeError", JSON_EXPECTING_VALUE)

\* Variant of validate_request: the bounds applied to the trimmed topic.
validate_request_trimmed ==
    /\ pc = "request"
    /\ pc' = IF Len(strip(request.topic)) >= min_length /\ Len(strip(request.topic)) <= max_length
             THEN "handler" ELSE "rejected"
    /\ UNCHANGED <<request, topic, prompt, calls, response_text, cleaned_response,
                   parsed_data, response, raised, log, slice_hashable>>

\* lines 59-60, 182-183: FastAPI validates the body against GenerationRequest
\* before the handler runs: a topic outside the length bounds is answered 422,
\* the handler is not called.
validate_request ==
    /\ pc = "request"
    /\ pc' = IF Len(request.topic) >= min_length /\ Len(request.topic) <= max_length
             THEN "handler" ELSE "rejected"
    /\ UNCHANGED <<request, topic, prompt, calls, response_text, cleaned_response,
                   parsed_data, response, raised, log, slice_hashable>>

\* Variant of topic_is_empty: the emptiness check left out.
topic_never_empty(t) == FALSE

\* line 196: if not topic
topic_is_empty(t) == t = << >>

\* lines 195-200
strip_topic ==
    /\ pc = "handler"
    /\ topic' = Some(strip(request.topic))
    /\ log' = Append(log, "strip")
    /\ IF topic_is_empty(strip(request.topic))
       THEN /\ response' = GenerationResponse(FALSE, None, Some(TOPIC_EMPTY))
            /\ pc' = "done"
       ELSE /\ pc' = "format"
            /\ UNCHANGED response
    /\ UNCHANGED <<request, prompt, calls, response_text, cleaned_response,
                   parsed_data, raised, slice_hashable>>

\* line 203
build_prompt ==
    /\ pc = "format"
    /\ prompt' = Some(STUDY_GENERATION_PROMPT(topic.some))
    /\ log' = Append(log, "format")
    /\ pc' = "create"
    /\ UNCHANGED <<request, topic, calls, response_text, cleaned_response,
                   parsed_data, response, raised, slice_hashable>>

\* Variant of next_pc_after_create: the call made again after an error.
next_pc_retry(failed) == IF failed THEN "create" ELSE "clean"

\* lines 206-223, 241: where control goes after the call: to the except clause
\* and out when it raised, on to the cleaner when it returned.
next_pc_after_create(failed) == IF failed THEN "done" ELSE "clean"

\* lines 206-222: the one upstream call.
create_completion ==
    /\ pc = "create"
    /\ calls < MaxCalls
    /\ calls' = calls + 1
    /\ log' = Append(log, "create")
    /\ \/ \E e \in UpstreamErrors :
            /\ raised' = Some([type |-> "APIError", msg |-> e])
            /\ response' = on_exception([type |-> "APIError", msg |-> e])
            /\ pc' = next_pc_after_create(TRUE)
            /\ UNCHANGED response_text
       \/ \E content \in {None} \cup {Some(t) : t \in UpstreamTexts} :
            /\ response_text' = Some(content)
            /\ pc' = next_pc_after_create(FALSE)
            /\ UNCHANGED <<response, raised>>
    /\ UNCHANGED <<request, topic, prompt, cleaned_response, parsed_data, slice_hashable>>

\* line 223: re.sub on a content of None raises TypeError.
NONE_TO_RE_SUB ==
    [type |-> "TypeError", msg |-> <<"e","x","p","e","c","t","e","d"," ","s","t","r","i","n","g"," ","o","r"," ","b","y","t","e","s","-","l","i","k","e"," ","o","b","j","e","c","t",","," ","g","o","t"," ","'","N","o","n","e","T","y","p","e","'">>]

clean_response ==
    /\ pc = "clean"
    /\ log' = Append(log, "clean")
    /\ IF response_text.some = None
       THEN /\ raised' = Some(NONE_TO_RE_SUB)
            /\ response' = on_exception(NONE_TO_RE_SUB)
            /\ pc' = "done"
            /\ UNCHANGED cleaned_response
       ELSE /\ cleaned_response' = Some(clean_json_response(response_text.some.some))
            /\ pc' = "loads"
            /\ UNCHANGED <<response, raised>>
    /\ UNCHANGED <<request, topic, prompt, calls, response_text, parsed_data, slice_hashable>>

\* lines 227-231
on_decode_error(exc) == GenerationResponse(FALSE, None, Some(PARSE_PREFIX \o exc.msg))

\* lines 225-231
parse_response ==
    /\ pc = "loads"
    /\ log' = Append(log, "loads")
    /\ LET r == json_loads(cleaned_response.some)
       IN  IF r.ok
           THEN /\ parsed_data' = Some(r.v)
                /\ pc' = "validate"
                /\ UNCHANGED <<response, raised>>
           ELSE /\ raised' = Some(r.exc)
                /\ response' = on_decode_error(r.exc)
                /\ pc' = "done"
                /\ UNCHANGED parsed_data
    /\ UNCHANGED <<request, topic, prompt, calls, response_text, cleaned_response, slice_hashable>>

\* lines 234-239
validate_response ==
    /\ pc = "validate"
    /\ log' = Append(log, "validate")
    /\ LET r == validate_study_data(parsed_data.some)
       IN  /\ response' = IF r.ok THEN GenerationResponse(TRUE, Some(r.v), None)
                          ELSE on_exception(r.exc)
           /\ raised' = IF r.ok THEN None ELSE Some(r.exc)
    /\ pc' = "done"
    /\ UNCHANGED <<request, topic, prompt, calls, response_text, cleaned_response,
                   parsed_data, slice_hashable>>

\* lines 182-251
generate_study_material ==
    \/ strip_topic
    \/ build_prompt
    \/ create_completion
    \/ clean_response
    \/ parse_response
    \/ validate_response

(***************************************************************************)
(* The requests of the model: a core of letters (with one inner blank)     *)
(* between whitespace on each side (0..MaxPad characters, or more than the *)
(* upper length bound), the core lengths around both length bounds.        *)
(***************************************************************************)
Rep(c, n) == [i \in 1..n |-> c]

Core(n) == [i \in 1..n |-> IF i = 2 /\ n >= 3 THEN " " ELSE "a"]

CoreLens == (0..(min_length + 1)) \cup ((max_length - 2 * MaxPad - 1)..(max_length + 1))

Pads == (0..MaxPad) \cup {max_length + 1}

Topics ==
    { Rep(w, lead) \o Core(n) \o Rep(w, trail) :
        w \in {" ", "\n"}, lead \in Pads, trail \in Pads, n \in CoreLens }

Init ==
    /\ pc = "request"
    /\ request \in {[topic |-> t] : t \in Topics}
    /\ topic = None
    /\ prompt = None
    /\ calls = 0
    /\ response_text = None
    /\ cleaned_response = None
    /\ parsed_data = None
    /\ response = None
    /\ raised = None
    /\ log = << >>
    /\ slice_hashable \in BOOLEAN

Next == validate_request \/ generate_study_material

Spec == Init /\ [][Next]_vars

(***************************************************************************)
(* validate_study_data applied to bounded decoded values: the handler      *)
(* entered after json.loads, at line 234.                                  *)
(***************************************************************************)
\* The sequences of length 0..n over S.
SeqsUpTo(S, n) == UNION {[1..k -> S] : k \in 0..n}

\* A field of a dict: absent, or present with one of the values.
Field(key, values) == {<< >>} \cup {<< <<key, v>> >> : v \in values}

OptionItems == {JStr(<<"x">>), JNum(7)}

FourKeys == << <<<<"a">>, JNum(1)>>, <<<<"b">>, JNum(2)>>, <<<<"c">>, JNum(3)>>, <<<<"d">>, JNum(4)>> >>

OptionsValues ==
    {JList(xs) : xs \in SeqsUpTo(OptionItems, MaxOpts)}
    \cup {JNull, JNum(4), JBool(TRUE), JStr(<<"a","b">>), JStr(<<"a","b","c","d">>), JStr(<<"a","b","c","d","e">>),
          JMap(<< >>), JMap(FourKeys), JMap(Append(FourKeys, <<<<"e">>, JNull>>))}

AnswerValues ==
    {JStr(<<"b">>), JStr(<<"B">>), JStr(<<"E">>), JStr(<<"a","b">>), JStr(<< >>), JNum(3), JNull,
     JBool(TRUE), JList(<<JStr(<<"a">>)>>), JMap(<< >>)}

QuestionValues == {JStr(<<"Q","?">>), JNull}

McqMaps ==
    {JMap(o \o q \o a) : o \in Field(<<"o","p","t","i","o","n","s">>, OptionsValues),
                         q \in Field(<<"q","u","e","s","t","i","o","n">>, QuestionValues),
                         a \in Field(<<"a","n","s","w","e","r">>, AnswerValues)}

CardValues == {JStr(<<"f">>), JNull, JNum(2)}

CardMaps == {JMap(f \o b) : f \in Field(<<"f","r","o","n","t">>, CardValues), b \in Field(<<"b","a","c","k">>, CardValues)}

NonMaps == {JNull, JBool(FALSE), JNum(1), JStr(<<"x">>), JList(<< >>)}

GoodMcq == JMap(<< <<<<"o","p","t","i","o","n","s">>, JList(<<JStr(<<"x">>)>>)>>, <<<<"a","n","s","w","e","r">>, JStr(<<"c">>)>> >>)

BadMcq == JMap(<< <<<<"o","p","t","i","o","n","s">>, JNull>> >>)

GoodCard == JMap(<< <<<<"f","r","o","n","t">>, JStr(<<"f">>)>> >>)

NotesValues ==
    {JNull, JStr(<< >>), JStr(<<"n">>), JNum(0), JNum(5), JBool(FALSE), JList(<< >>),
     JMap(<< <<<<"k">>, JStr(<<"v">>)>> >>),
     JList(<<JStr(<<"a">>), JStr(<< >>), JNull, JNum(0), JNum(3), JList(<< >>), JBool(TRUE)>>)}

SanitizerInputs ==
    \* one mcq, every shape of its fields
    {JMap(<< <<<<"m","c","q","s">>, JList(<<m>>)>> >>) : m \in McqMaps \cup NonMaps}
    \* the number of mcqs and flashcards, mappings and non-mappings mixed
    \cup {JMap(<< <<<<"m","c","q","s">>, JList(ms)>> >>) :
             ms \in SeqsUpTo({GoodMcq, BadMcq, JNum(1)}, MaxItems)}
    \cup {JMap(<< <<<<"f","l","a","s","h","c","a","r","d","s">>, JList(cs)>>, <<<<"m","c","q","s">>, JList(<<GoodMcq>>)>> >>) :
             cs \in SeqsUpTo({GoodCard, JNull}, MaxItems)}
    \* one flashcard, every shape of its fields
    \cup {JMap(<< <<<<"f","l","a","s","h","c","a","r","d","s">>, JList(<<c>>)>> >>) : c \in CardMaps \cup NonMaps}
    \* the three top-level fields holding any kind of value
    \cup {JMap(n \o m \o f) : n \in Field(<<"n","o","t","e","s">>, NotesValues),
                              m \in Field(<<"m","c","q","s">>, NonMaps \cup {JMap(<< >>)}),
                              f \in Field(<<"f","l","a","s","h","c","a","r","d","s">>, NonMaps \cup {JMap(<< >>)})}
    \* a top level that is no mapping
    \cup NonMaps

InitSanitize ==
    /\ pc = "validate"
    /\ request = [topic |-> <<"a","b">>]
    /\ topic = Some(<<"a","b">>)
    /\ prompt = Some(STUDY_GENERATION_PROMPT(<<"a","b">>))
    /\ calls = 1
    /\ response_text = None
    /\ cleaned_response = None
    /\ parsed_data \in {Some(v) : v \in SanitizerInputs}
    /\ response = None
    /\ raised = None
    /\ log = <<"strip", "format", "create", "clean", "loads">>
    /\ slice_hashable \in BOOLEAN

NextSanitize == validate_response

SpecSanitize == InitSanitize /\ [][NextSanitize]_vars

(***************************************************************************)
(* clean_json_response applied to bounded raw texts: the handler entered   *)
(* at line 223 with a completion made of up to MaxSegs segments.           *)
(***************************************************************************)
CleanSegs == {<<"BT","BT","BT">>, <<"j","s","o","n">>, <<"p","y">>, <<" ">>, <<"\n">>, <<"{","}">>, <<"BT">>}

RECURSIVE Flatten(_)
Flatten(parts) == IF Len(parts) = 0 THEN << >> ELSE parts[1] \o Flatten(Tail(parts))

CleanInputs == {Flatten(parts) : parts \in SeqsUpTo(CleanSegs, MaxSegs)}

InitClean ==
    /\ pc = "clean"
    /\ request = [topic |-> <<"a","b">>]
    /\ topic = Some(<<"a","b">>)
    /\ prompt = Some(STUDY_GENERATION_PROMPT(<<"a","b">>))
    /\ calls = 1
    /\ response_text \in {Some(Some(t)) : t \in CleanInputs}
    /\ cleaned_response = None
    /\ parsed_data = None
    /\ response = None
    /\ raised = None
    /\ log = <<"strip", "format", "create">>
    /\ slice_hashable = FALSE

NextClean == clean_response

SpecClean == InitClean /\ [][NextClean]_vars

(***************************************************************************)
(* The claims.                                                             *)
(***************************************************************************)
Range(s) == {s[i] : i \in 1..Len(s)}

Terminal == pc \in {"done", "rejected"}

RawLen == Len(request.topic)

Trimmed == strip(request.topic)

InBounds(n) == n >= 2 /\ n <= 200

\* The guards of the actions of Next: the rest of each action is an assignment
\* that is defined in every state, so this is ENABLED Next.
CanStep ==
    \/ pc \in {"request", "handler", "format", "clean", "loads", "validate"}
    \/ (pc = "create" /\ calls < MaxCalls)

Failure(msg) == [success |-> FALSE, data |-> None, error |-> Some(msg)]

C2_Bounds ==
    (pc = "done" /\ response.success) =>
        LET d == response.data.some
        IN  /\ Len(d.mcqs) <= 5
            /\ Len(d.flashcards) <= 3
            /\ \A i \in 1..Len(d.mcqs) : Len(d.mcqs[i].options) = 4

C2_Witness ==
    /\ pc = "done"
    /\ response.success
    /\ parsed_data.some.t = "map"
    /\ dict_get(parsed_data.some, <<"m","c","q","s">>, JNull).t = "list"
    /\ Len(dict_get(parsed_data.some, <<"m","c","q","s">>, JNull).xs) > 5
    /\ \A i \in 1..6 : dict_get(parsed_data.some, <<"m","c","q","s">>, JNull).xs[i].t = "map"
    /\ Len(response.data.some.mcqs) = 5

\* C3: the handler always ends by returning a GenerationResponse in which
\* exactly one of data and error is populated, data when success is true and
\* error when it is false; no step leaves it without a continuation.
C3_AlwaysResponds ==
    /\ (pc = "done") =>
           /\ response.success \in BOOLEAN
           /\ response.success => (response.data # None /\ response.error = None)
           /\ ~response.success => (response.error # None /\ response.data = None)
    /\ (pc # "done") => (response = None)
    /\ (~Terminal) => CanStep

C3_Witness ==
    /\ pc = "done"
    /\ raised # None
    /\ raised.some.type = "AttributeError"
    /\ ~response.success
    /\ response.error = Some(raised.some.msg)

\* C4, as stated: validate_study_data never raises, so a request whose
\* upstream text parsed as JSON always ends in Success.
C4_NeverFails == (pc = "done") => (response.success /\ raised = None)

Count(s, x) == Cardinality({i \in 1..Len(s) : s[i] = x})

\* Every upstream call in the log comes after the prompt was built and
\* before every sanitizing step.
CallInOrder ==
    \A i \in 1..Len(log) :
        (log[i] = "create") =>
            /\ \E k \in 1..(i - 1) : log[k] = "format"
            /\ \A j \in 1..Len(log) : (log[j] \in {"clean", "loads", "validate"}) => (j > i)

\* C6, as stated: every request whose trimmed topic is non-empty issues the
\* upstream call exactly once and ends in a response.
C6_Original ==
    /\ calls <= 1
    /\ (Terminal /\ Trimmed # << >>) => (calls = 1 /\ pc = "done")

\* C6, amended: every request admitted by request validation (raw topic of
\* 2..200 characters) whose trimmed topic is non-empty issues the upstream
\* call exactly once, after the prompt is built and before any sanitizing
\* step, whatever the call's outcome, and runs on to a response; no request
\* issues it twice.
C6_ExactlyOnce ==
    /\ calls <= 1
    /\ Count(log, "create") = calls
    /\ CallInOrder
    /\ (Terminal /\ InBounds(RawLen) /\ Trimmed # << >>) =>
           (calls = 1 /\ pc = "done" /\ response # None)
    /\ (~Terminal) => CanStep

C6_Witness ==
    /\ pc = "done"
    /\ calls = 1
    /\ raised # None
    /\ raised.some.type = "APIError"
    /\ log = <<"strip", "format", "create">>

\* Whether pat occurs in text, letter case ignored.
HasCI(text, pat) ==
    \E i \in 1..Len(text) :
        /\ i + Len(pat) - 1 <= Len(text)
        /\ \A k \in 1..Len(pat) : LowerChar(text[i + k - 1]) = pat[k]

\* C7: the Failure message of a raised error is the generic configuration
\* message when the error text holds "api_key" in any letter case, else the
\* rate-limit message when it holds "rate limit", else the raw text; that of
\* a JSON decode error is the parse-failure prefix and the decoder's text.
C7_Classified ==
    (pc = "done" /\ raised # None) =>
        LET e == raised.some
        IN  /\ response.success = FALSE
            /\ response.data = None
            /\ response.error = Some(
                 IF e.type = "JSONDecodeError"
                 THEN <<"F","a","i","l","e","d"," ","t","o"," ","p","a","r","s","e"," ","A","I"," ","r","e","s","p","o","n","s","e",":"," ">> \o e.msg
                 ELSE IF HasCI(e.msg, <<"a","p","i","_","k","e","y">>)
                 THEN <<"A","P","I"," ","c","o","n","f","i","g","u","r","a","t","i","o","n"," ","e","r","r","o","r","."," ","P","l","e","a","s","e"," ","c","o","n","t","a","c","t"," ","s","u","p","p","o","r","t",".">>
                 ELSE IF HasCI(e.msg, <<"r","a","t","e"," ","l","i","m","i","t">>)
                 THEN <<"T","o","o"," ","m","a","n","y"," ","r","e","q","u","e","s","t","s","."," ","P","l","e","a","s","e"," ","t","r","y"," ","a","g","a","i","n"," ","i","n"," ","a"," ","m","o","m","e","n","t",".">>
                 ELSE e.msg)
            /\ (e.type # "JSONDecodeError" /\ HasCI(e.msg, <<"a","p","i","_","k","e","y">>)) =>
                   ~Contains(response.error.some, e.msg)

C7_Witness ==
    /\ pc = "done"
    /\ raised # None
    /\ raised.some.msg = <<"M","i","s","s","i","n","g"," ","A","P","I","_","K","E","Y">>
    /\ response.error = Some(<<"A","P","I"," ","c","o","n","f","i","g","u","r","a","t","i","o","n"," ","e","r","r","o","r","."," ","P","l","e","a","s","e"," ","c","o","n","t","a","c","t"," ","s","u","p","p","o","r","t",".">>)

\* C8, as stated: every mcq's answer in a returned StudyData is one uppercase
\* letter, whatever value the upstream supplied.
C8_SingleLetter ==
    (pc = "done" /\ response.success) =>
        \A i \in 1..Len(response.data.some.mcqs) :
            /\ Len(response.data.some.mcqs[i].answer) = 1
            /\ response.data.some.mcqs[i].answer[1] \in Range(UpperLetters)

\* The options the claim gives for an "options" array xs.
ExpectedOptions(xs) ==
    [p \in 1..4 |->
        IF p <= Len(xs) THEN py_str(xs[p])
        ELSE <<(<<"A","B","C","D">>)[p]>> \o <<")"," ","O","p","t","i","o","n"," ">> \o <<(<<"1","2","3","4">>)[p]>>]

\* C9: the mappings among the first 5 elements of "mcqs" give the mcqs of the
\* result, in order, and one whose "options" is an array of n items (absent:
\* n = 0) gets the first 4 items as text when n >= 4, and the n items followed
\* by the placeholders "<letter>) Option <p>" for p = n+1..4 when n < 4.
C9_Options ==
    (pc = "done" /\ response.success) =>
        LET got   == dict_get(parsed_data.some, <<"m","c","q","s">>, JList(<< >>))
            first == IF got.t = "list" THEN Take(got.xs, 5) ELSE << >>
            maps  == SelectSeq(first, LAMBDA m : m.t = "map")
            out   == response.data.some.mcqs
        IN  /\ Len(out) = Len(maps)
            /\ \A k \in 1..Len(maps) :
                   LET o == dict_get(maps[k], <<"o","p","t","i","o","n","s">>, JList(<< >>))
                   IN  (o.t = "list") => (out[k].options = ExpectedOptions(o.xs))

C9_Witness ==
    /\ pc = "done"
    /\ response.success
    /\ parsed_data.some =
           JMap(<< <<<<"m","c","q","s">>, JList(<<JMap(<< <<<<"o","p","t","i","o","n","s">>, JList(<<JStr(<<"x">>)>>)>> >>)>>)>> >>)
    /\ response.data.some.mcqs[1].options =
           <<<<"x">>, <<"B",")"," ","O","p","t","i","o","n"," ","2">>, <<"C",")"," ","O","p","t","i","o","n"," ","3">>, <<"D",")"," ","O","p","t","i","o","n"," ","4">>>>

\* C10, as stated, on the texts where it leaves no choice: a text with no
\* fence at its start or end is returned trimmed and otherwise unchanged,
\* backticks inside included; a text that opens with a fence, a language tag
\* and a line break is returned without that line, whatever the tag.
C10_OnlyOuterFences ==
    (pc = "loads") =>
        LET raw == response_text.some.some
            t   == strip(raw)
        IN  /\ (~MatchAt(Fence, t, 1) /\ ~MatchAt(Fence, t, Len(t) - 2)) =>
                   (cleaned_response.some = t)
            /\ \A tag \in {<< >>, <<"j","s","o","n">>, <<"p","y">>} :
                   LET open == Fence \o tag \o <<"\n">>
                       body == SubSeq(raw, Len(open) + 1, Len(raw))
                   IN  (MatchAt(open, raw, 1) /\ "BT" \notin Range(body)) =>
                           (cleaned_response.some = strip(body))

====
